---- MODULE Spec2Model ----
(***************************************************************************)
(* Model of the Factorio server mod manager: the update pass              *)
(* (updater/check_update.rs) and the archive installer                     *)
(* (updater/mod_updater.rs), driven from main (main.rs).                   *)
(*                                                                         *)
(* File and folder names are sequences of tokens, so that starts_with,    *)
(* split_once('_') and trim_end_matches(".zip") are computed as the code  *)
(* computes them.  Version strings are sequences of numeric components;   *)
(* a version string parses iff it has exactly three components.           *)
(***************************************************************************)
EXTENDS Integers, Sequences, FiniteSets, TLC

\* ------------------------------------------------------------------ bounds
MaxEntries  == 2   \* entries of data/ when the program is run once
MaxRerunEntries == 1   \* entries of data/ when the program is run again
MaxRuns     == 2   \* runs of the program when it is run again
MaxFaults   == 1   \* injected I/O or network faults in one behaviour
MaxReleases == 3   \* length of a release list given to pick_latest
MaxVerNum   == 1   \* largest numeric component of a version string
DigestLen   == 1   \* bytes of a digest (SHA-1 has 20)
MaxSanitize == 2   \* runs of sanitize_section on one section

\* ------------------------------------------------------------- names
StartsWith(s, p) == Len(p) <= Len(s) /\ SubSeq(s, 1, Len(p)) = p

\* str::trim_end_matches(".zip"): strips every trailing ".zip"
RECURSIVE TrimEndZip(_)
TrimEndZip(s) ==
    IF Len(s) > 0 /\ s[Len(s)] = ".zip" THEN TrimEndZip(SubSeq(s, 1, Len(s) - 1))
    ELSE s

\* neat.split_once('_').map_or(neat, |(first, _)| first)
SlugOf(neat) ==
    IF \E i \in 1..Len(neat) : neat[i] = "_"
    THEN LET i == CHOOSE j \in 1..Len(neat) :
                      neat[j] = "_" /\ \A k \in 1..(j - 1) : neat[k] # "_"
         IN SubSeq(neat, 1, i - 1)
    ELSE neat

\* the prefix is taken from the whole new folder name instead of the slug
IsOldVersionOfNeat(fname, slug, neat) ==
    StartsWith(fname, Append(neat, "_")) /\ fname # neat

\* the '_' after the slug is left out of the prefix
IsOldVersionOfBareSlug(fname, slug, neat) ==
    StartsWith(fname, slug) /\ fname # neat

\* fname.starts_with(&format!("{}_", slug)) && fname != neat
IsOldVersion(fname, slug, neat) ==
    StartsWith(fname, Append(slug, "_")) /\ fname # neat

\* --------------------------------------------------------- semantic versions
\* semver::Version::parse: Some(v) only for major.minor.patch
VersionParse(s) ==
    IF Len(s) = 3 THEN [ok |-> TRUE, v |-> s] ELSE [ok |-> FALSE, v |-> <<0, 0, 0>>]

\* Ord for semver::Version on parsed versions: -1, 0, 1
VersionCmp(v1, v2) ==
    IF v1[1] # v2[1] THEN (IF v1[1] < v2[1] THEN -1 ELSE 1)
    ELSE IF v1[2] # v2[2] THEN (IF v1[2] < v2[2] THEN -1 ELSE 1)
    ELSE IF v1[3] # v2[3] THEN (IF v1[3] < v2[3] THEN -1 ELSE 1)
    ELSE 0

NoneLatest == [some |-> FALSE]
SomeLatest(v, r) == [some |-> TRUE, ver |-> v, rel |-> r]

\* the comparison is turned round: the lowest valid version wins
RECURSIVE MinBy(_, _, _)
MinBy(releases, i, best) ==
    IF i > Len(releases) THEN best
    ELSE LET p == VersionParse(releases[i].version) IN
         IF ~p.ok THEN MinBy(releases, i + 1, best)
         ELSE IF ~best.some \/ VersionCmp(best.ver, p.v) >= 0
              THEN MinBy(releases, i + 1, SomeLatest(p.v, releases[i]))
              ELSE MinBy(releases, i + 1, best)

\* Iterator::max_by: keeps the last of several equally maximum elements
RECURSIVE MaxBy(_, _, _)
MaxBy(releases, i, best) ==
    IF i > Len(releases) THEN best
    ELSE LET p == VersionParse(releases[i].version) IN
         IF ~p.ok THEN MaxBy(releases, i + 1, best)
         ELSE IF ~best.some \/ VersionCmp(best.ver, p.v) <= 0
              THEN MaxBy(releases, i + 1, SomeLatest(p.v, releases[i]))
              ELSE MaxBy(releases, i + 1, best)

pick_latest(releases) == MaxBy(releases, 1, NoneLatest)

\* ------------------------------------------------------------------ digests
HexLower == <<"0", "1", "2", "3", "4", "5", "6", "7",
              "8", "9", "a", "b", "c", "d", "e", "f">>

\* format!("{:x}", digest): two lowercase hex digits per byte
RECURSIVE LowerHex(_)
LowerHex(bytes) ==
    IF bytes = <<>> THEN <<>>
    ELSE <<HexLower[(bytes[1] \div 16) + 1], HexLower[(bytes[1] % 16) + 1]>>
         \o LowerHex(Tail(bytes))

\* the digest is computed and logged but never compared
ShaAcceptsAnything(got_sha, expected_sha) == TRUE

\* got_sha != expected_sha is false: String equality, case-sensitive
ShaAccepts(got_sha, expected_sha) == got_sha = expected_sha

\* ------------------------------------------------------------ remote world
Host == "https://mods.factorio.com/"

\* folder names that occur under data/ or inside an archive
N_a1   == <<"a", "_", "1">>
N_a2   == <<"a", "_", "2">>
N_ab1  == <<"a", "_", "b", "_", "1">>
N_ab2  == <<"a", "_", "b", "_", "2">>
N_x1   == <<"a", "b", "_", "1">>
N_a    == <<"a">>
N_base == <<"base">>
N_core == <<"core">>
N_temp == <<"temp">>

V100 == <<1, 0, 0>>
V200 == <<2, 0, 0>>
V090 == <<0, 9, 0>>
VBad == <<1, 0>>

\* contents of info.json
NoInfo      == [json |-> "missing"]
BadInfo     == [json |-> "bad"]
Info(n, v)  == [json |-> "ok", name |-> n, version |-> v]

\* an archive as extract() and the info.json walk see it:
\*   zip  "bad"  - ZipArchive::new fails
\*   root "none" - no info.json in the tree, "top" - info.json at the top of
\*        the archive, "sub" - info.json inside the folder `folder`,
\*        "badname" - info.json inside a folder whose name is not UTF-8
ArchiveOf(p) ==
    CASE p = "pA2"    -> [zip |-> "ok", root |-> "sub", folder |-> N_a2, info |-> Info("m1", V200)]
      [] p = "pA2zip" -> [zip |-> "ok", root |-> "sub", folder |-> N_a2 \o <<".zip">>, info |-> Info("m1", V200)]
      [] p = "pAB2"   -> [zip |-> "ok", root |-> "sub", folder |-> N_ab2, info |-> Info("m2", V200)]
      [] p = "pA"     -> [zip |-> "ok", root |-> "sub", folder |-> N_a, info |-> Info("m1", V200)]
      [] p = "pTop"   -> [zip |-> "ok", root |-> "top", folder |-> N_temp, info |-> Info("m1", V200)]
      [] p = "pBadName" -> [zip |-> "ok", root |-> "badname", folder |-> <<>>, info |-> Info("m1", V200)]
      [] p = "pNoInfo" -> [zip |-> "ok", root |-> "none", folder |-> <<>>, info |-> NoInfo]
      [] OTHER        -> [zip |-> "bad", root |-> "none", folder |-> <<>>, info |-> NoInfo]

Payloads == {"pA2", "pA2zip", "pAB2", "pA", "pTop", "pBadName", "pNoInfo", "pBadZip"}

\* one byte that stands for the content of the payload
PayloadByte(p) ==
    CASE p = "pA2" -> 171 [] p = "pA2zip" -> 186 [] p = "pAB2" -> 27
      [] p = "pA" -> 161 [] p = "pTop" -> 177 [] p = "pNoInfo" -> 26
      [] p = "pBadName" -> 17
      [] OTHER -> 187

\* Sha1::new().update(bytes).finalize()
Sha1(p) == [i \in 1..DigestLen |-> PayloadByte(p)]

UpperTok(c) ==
    CASE c = "a" -> "A" [] c = "b" -> "B" [] c = "c" -> "C"
      [] c = "d" -> "D" [] c = "e" -> "E" [] c = "f" -> "F" [] OTHER -> c

UpperHex(h) == [i \in 1..Len(h) |-> UpperTok(h[i])]

\* lines 26-30: relative download URLs are prefixed with the host
BaseUrl(download_url) ==
    IF Len(download_url) > 0 /\ download_url[1] \in {Host, "http://["}
    THEN download_url
    ELSE <<Host>> \o download_url

\* Url::parse
UrlParses(base) == Len(base) > 0 /\ base[1] = Host

\* the mod portal: status and body of GET url
HttpGet(url) ==
    IF Len(url) = 2 /\ url[2] \in Payloads
    THEN [status |-> 200, body |-> url[2]]
    ELSE [status |-> 404, body |-> "none"]

Release(ver, url, sha) ==
    [version |-> ver, download_url |-> url, file_name |-> <<"f", ".zip">>, sha1 |-> sha]

GoodRelease(ver, p) == Release(ver, <<p>>, LowerHex(Sha1(p)))

\* release lists the portal serves for mod "m1" and for mod "m2"
M1Lists ==
    { <<>>,
      <<GoodRelease(V100, "pA2")>>,
      <<GoodRelease(V090, "pA2")>>,
      <<GoodRelease(V100, "pA2"), GoodRelease(V200, "pA2"), GoodRelease(VBad, "pA2")>>,
      <<Release(V200, <<Host, "pA2zip">>, UpperHex(LowerHex(Sha1("pA2zip"))))>>,
      <<Release(V200, <<"pA2">>, LowerHex(Sha1("pA")))>>,
      <<Release(V200, <<"gone">>, LowerHex(Sha1("pA2")))>>,
      <<Release(V200, <<"http://[">>, LowerHex(Sha1("pA2")))>>,
      <<GoodRelease(V200, "pA2zip")>>,
      <<GoodRelease(V200, "pA")>>,
      <<GoodRelease(V200, "pTop")>>,
      <<GoodRelease(V200, "pNoInfo")>>,
      <<GoodRelease(V200, "pBadName")>>,
      <<GoodRelease(V200, "pBadZip")>> }

M2Lists == { <<GoodRelease(VBad, "pAB2")>>, <<GoodRelease(V200, "pAB2")>> }

ModNames == {"m1", "m2"}

ListsOf(m) == IF m = "m1" THEN M1Lists ELSE M2Lists

\* the portal keeps serving the list it served first for a mod
Unfetched == [known |-> FALSE, list |-> <<>>]
Served(l) == [known |-> TRUE, list |-> l]

\* --------------------------------------------------------------- filesystem
Absent        == [kind |-> "absent"]
File          == [kind |-> "file"]
EmptyDir      == [kind |-> "dir", empty |-> TRUE, info |-> NoInfo]
DirWith(info) == [kind |-> "dir", empty |-> FALSE, info |-> info]

IsDir(c) == c.kind = "dir"

AllNames  == {N_a1, N_a2, N_ab1, N_ab2, N_x1, N_a, N_base, N_temp}
InitNames == {N_a1, N_a2, N_ab1, N_x1, N_base}

\* what each entry of data/ can be at program start: a_1 is anything, a_2
\* (the name a new version of a takes) is a file, an empty or an installed
\* folder, a_b_1 and ab_1 are other mods or strays, base/ is the game's own
\* mod
InitContents(n) ==
    CASE n = N_a1  -> {File, EmptyDir, DirWith(NoInfo), DirWith(BadInfo),
                       DirWith(Info("m1", V100)), DirWith(Info("m1", VBad)),
                       DirWith(Info("m2", V100))}
      [] n = N_a2  -> {File, EmptyDir, DirWith(Info("m1", V100))}
      [] n = N_ab1 -> {DirWith(NoInfo), DirWith(Info("m2", V100))}
      [] n = N_x1  -> {File, DirWith(Info("m1", V100))}
      [] OTHER     -> {DirWith(Info("m1", V100))}

Present(d) == {n \in DOMAIN d : d[n].kind # "absent"}
Dirs(d)    == {n \in DOMAIN d : IsDir(d[n])}

\* data/ with at most k entries
LayoutsUpTo(k) ==
    UNION { { [n \in AllNames |-> IF n \in S THEN f[n] ELSE Absent] :
                f \in {g \in [S -> UNION {InitContents(n) : n \in S}] :
                          \A n \in S : g[n] \in InitContents(n)} } :
            S \in {T \in SUBSET InitNames : Cardinality(T) <= k} }

Layouts == LayoutsUpTo(MaxEntries)

TempAbsent    == [exists |-> FALSE, files |-> {}]
TempWith(fs)  == [exists |-> TRUE, files |-> fs]

\* temp/ as an install that failed after its extraction left it
Leftover == TempWith({"pA"})

\* ------------------------------------------------------- mod-manager.toml
\* a toml::Value: a string, a boolean (written as in the file) or a table
Str(v)   == [t |-> "string", v |-> v]
Bool(v)  == [t |-> "boolean", v |-> v]
Table(m) == [t |-> "table", map |-> m]

Sections == {"factorio", "mod-manager"}

\* config.rs:9-19
ALLOWED_SECTION_KEYS(section) ==
    IF section = "factorio"
    THEN {"username", "token"}
    ELSE {"autoupdate-mods", "autoupdate-server", "autostart-when-finished"}

\* config.rs:44-58
DefaultConfig ==
    [factorio    |-> [username |-> "my-username", token |-> "my-token"],
     mod_manager |-> [autoupdate_mods |-> TRUE, autoupdate_server |-> TRUE,
                      autostart_when_finished |-> TRUE]]

\* toml::Value::try_from of a section of the configuration, and so
\* to_string_pretty of the whole of it
SectionValue(c, section) ==
    IF section = "factorio"
    THEN Table([k \in {"username", "token"} |->
                   Str(IF k = "username" THEN c.factorio.username
                       ELSE c.factorio.token)])
    ELSE Table([k \in ALLOWED_SECTION_KEYS("mod-manager") |->
                   Bool(IF \/ k = "autoupdate-mods" /\ c.mod_manager.autoupdate_mods
                           \/ k = "autoupdate-server" /\ c.mod_manager.autoupdate_server
                           \/ k = "autostart-when-finished"
                                /\ c.mod_manager.autostart_when_finished
                        THEN "true" ELSE "false")])

ToDoc(c) == [s \in Sections |-> SectionValue(c, s)]

\* config.rs:96-100
DefaultSection(section) == SectionValue(DefaultConfig, section)

\* missing keys are not filled in
SanitizedTableNoDefaults(map, allowed_keys, default_section) ==
    [k \in DOMAIN map \cap allowed_keys |-> map[k]]

\* config.rs:124-147: the table of a section without its disallowed keys and
\* with every missing allowed key taken from the default section
SanitizedTable(map, allowed_keys, default_section) ==
    LET kept   == DOMAIN map \cap allowed_keys
        filled == {k \in allowed_keys \ kept : k \in DOMAIN default_section.map}
    IN [k \in kept \cup filled |->
           IF k \in kept THEN map[k] ELSE default_section.map[k]]

\* config.rs:114-156: the root table after sanitize_section
sanitize_section(root, section, allowed_keys, default_section) ==
    LET entry == IF section \in DOMAIN root THEN root[section]
                 ELSE default_section
        new   == IF entry.t = "table"
                 THEN Table(SanitizedTable(entry.map, allowed_keys, default_section))
                 ELSE default_section
    IN [s \in DOMAIN root \cup {section} |->
           IF s = section THEN new ELSE root[s]]

\* config.rs:94-102: both known sections, in the order of ALLOWED_SECTION_KEYS
SanitizeRoot(root) ==
    LET r1 == sanitize_section(root, "factorio",
                               ALLOWED_SECTION_KEYS("factorio"),
                               DefaultSection("factorio"))
    IN sanitize_section(r1, "mod-manager",
                        ALLOWED_SECTION_KEYS("mod-manager"),
                        DefaultSection("mod-manager"))

\* config.rs:108: toml::from_str::<Config>: both sections are tables, every
\* field is there and has the type of its struct field
Deserializes(root) ==
    /\ Sections \subseteq DOMAIN root
    /\ \A s \in Sections :
          /\ root[s].t = "table"
          /\ ALLOWED_SECTION_KEYS(s) \subseteq DOMAIN root[s].map
          /\ \A k \in ALLOWED_SECTION_KEYS(s) :
                root[s].map[k].t = IF s = "factorio" THEN "string" ELSE "boolean"

FromDoc(root) ==
    [factorio    |-> [username |-> root["factorio"].map["username"].v,
                      token    |-> root["factorio"].map["token"].v],
     mod_manager |-> [autoupdate_mods |->
                          root["mod-manager"].map["autoupdate-mods"].v = "true",
                      autoupdate_server |->
                          root["mod-manager"].map["autoupdate-server"].v = "true",
                      autostart_when_finished |->
                          root["mod-manager"].map["autostart-when-finished"].v = "true"]]

\* the file mod-manager.toml
NoFile      == [state |-> "missing"]
InvalidToml == [state |-> "invalid"]
Doc(root)   == [state |-> "toml", root |-> root]

\* the [factorio] section as a user may have left it
Factorio(u, t) == Table([k \in {"username", "token"} |->
                            Str(IF k = "username" THEN u ELSE t)])

FactorioSections ==
    { Factorio("alice", "s3cret"),
      Factorio("XXX", "s3cret"),
      Factorio("alice", "XXX"),
      Factorio("my-username", "s3cret"),
      Table([k \in {"username"} |-> Str("alice")]),
      Table([k \in {"username", "token", "password"} |-> Str("alice")]),
      Table([k \in {"username", "token"} |-> Bool("true")]),
      Str("alice") }

ModManagerSections ==
    { DefaultSection("mod-manager"),
      Table([k \in {"autoupdate-mods"} |-> Bool("false")]),
      Table([k \in ALLOWED_SECTION_KEYS("mod-manager") |-> Str("yes")]) }

ConfigRoots ==
    UNION { { [s \in S |-> IF s = "factorio" THEN f ELSE m] :
                f \in FactorioSections, m \in ModManagerSections } :
            S \in SUBSET Sections }

ConfigFiles == {NoFile, InvalidToml} \cup {Doc(r) : r \in ConfigRoots}

\* a configuration with the credentials of a user
GoodConfig ==
    [DefaultConfig EXCEPT !.factorio = [username |-> "alice", token |-> "s3cret"]]

\* a settings file with credentials, and one with the values main.rs:50 tests
GoodConfigFiles ==
    { Doc(ToDoc(GoodConfig)),
      Doc(ToDoc([DefaultConfig EXCEPT !.factorio =
                     [username |-> "XXX", token |-> "XXX"]])) }

NoConfig ==
    [factorio    |-> [username |-> "", token |-> ""],
     mod_manager |-> [autoupdate_mods |-> FALSE, autoupdate_server |-> FALSE,
                      autostart_when_finished |-> FALSE]]

\* -------------------------------------------------------------------- state
VARIABLES
    config_file,   \* mod-manager.toml
    cfg,           \* main: the Config load_or_init returned
    pc,            \* position of the program
    run,           \* runs of main started so far
    faults,        \* I/O and network faults injected so far
    data,          \* data/: folder name -> content
    temp,          \* temp/: the scratch directory
    remote,        \* the portal: mod name -> release list served so far
    dir_pending,   \* check_mod_updates: entries read_dir has not returned yet
    visited,       \* check_mod_updates: entries in the order they were returned
    entry,         \* check_mod_updates: the entry being processed
    outcome,       \* what the pass logged for each entry
    result,        \* return value of check_mod_updates
    pass_exit,     \* the statement check_mod_updates returned from
    local,         \* process_mod_dir: LocalInfo
    releases,      \* process_mod_dir: fetched releases
    latest,        \* process_mod_dir: pick_latest(&releases)
    p_result,      \* return value of process_mod_dir
    um_args,       \* update_mod: download_url and expected_sha
    bytes,         \* update_mod: downloaded payload
    raw,           \* update_mod: where the extracted root is and its name
    entries,       \* update_mod: entries its read_dir has not returned yet
    um_result,     \* return value of update_mod
    um_exit,       \* the statement update_mod returned from
    data_at_call,  \* data/ when update_mod was called
    downloads,     \* HTTP GETs of an archive issued so far
    at_entry,      \* data/, temp/ and downloads when the entry was returned
    committed,     \* folder name -> the update whose rename created it
    um_log,        \* update_mod: the steps of this call that have succeeded
    san            \* sanitize_section: the root table before it ran, and its runs

envVars  == <<run, faults, remote>>
fsVars   == <<data, temp>>
passVars == <<dir_pending, visited, entry, outcome, result, pass_exit>>
procVars == <<local, releases, latest, p_result>>
umVars   == <<um_args, bytes, raw, entries, um_result, um_exit, data_at_call>>
ghostVars == <<at_entry, committed, um_log>>
cfgVars  == <<config_file, cfg>>
sanVars  == <<san>>
vars     == <<pc, envVars, fsVars, passVars, procVars, umVars, downloads, ghostVars,
              cfgVars, sanVars>>

NoLocal   == [name |-> "none", version |-> <<>>]
NoArgs    == [download_url |-> <<>>, expected_sha |-> <<>>]
NoRaw     == [root |-> "none", folder |-> <<>>, from |-> "none"]
NoResult  == [ret |-> "none", how |-> "none"]
NoCommit  == [run |-> 0, name |-> "none", ver |-> <<0, 0, 0>>]
NoOutcome == [n \in AllNames |-> "none"]

\* sanitize_section has not run
NoSan == [first |-> <<>>, before |-> <<>>, last |-> "none",
          times |-> [s \in Sections |-> 0]]

\* a fault can still be injected
CanFail == faults < MaxFaults

Snapshot == [data |-> data, temp |-> temp, downloads |-> downloads]

\* no run has started, nothing is being processed
Idle ==
    /\ run = 0
    /\ faults = 0
    /\ remote = [m \in ModNames |-> Unfetched]
    /\ dir_pending = {}
    /\ visited = <<>>
    /\ entry = <<>>
    /\ outcome = NoOutcome
    /\ result = "none"
    /\ pass_exit = "none"
    /\ local = NoLocal
    /\ latest = NoneLatest
    /\ p_result = NoResult
    /\ raw = NoRaw
    /\ entries = {}
    /\ um_result = "none"
    /\ um_exit = "none"
    /\ downloads = 0
    /\ data_at_call = data
    /\ at_entry = Snapshot
    /\ committed = [n \in AllNames |-> NoCommit]
    /\ um_log = <<>>

\* the state when main starts: data/ is a directory (main.rs:35), temp/ may be
\* left over from an earlier run
Init ==
    /\ pc = "main"
    /\ config_file \in GoodConfigFiles
    /\ cfg = NoConfig
    /\ san = NoSan
    /\ data \in Layouts
    /\ temp \in {TempAbsent, Leftover}
    /\ releases = <<>>
    /\ um_args = NoArgs
    /\ bytes = "none"
    /\ Idle

\* ------------------------------------------------------------------- main
\* main.rs:17 and config.rs:62-111: load_or_init; a settings file that is
\* missing is written with the defaults, one that is there is sanitized,
\* written back and read into a Config
LoadOrInit ==
    /\ pc = "main"
    /\ run' = run + 1
    /\ \/ /\ CanFail
          /\ faults' = faults + 1
          /\ pc' = "exit"
          /\ UNCHANGED cfgVars
       \/ /\ config_file = NoFile
          /\ config_file' = Doc(ToDoc(DefaultConfig))
          /\ cfg' = DefaultConfig
          /\ pc' = "credentials"
          /\ faults' = faults
       \/ /\ config_file = InvalidToml
          /\ pc' = "exit"
          /\ UNCHANGED <<cfgVars, faults>>
       \/ /\ config_file.state = "toml"
          /\ LET root == SanitizeRoot(config_file.root) IN
                /\ config_file' = Doc(root)
                /\ IF Deserializes(root)
                   THEN /\ cfg' = FromDoc(root)
                        /\ pc' = "credentials"
                   ELSE /\ cfg' = cfg
                        /\ pc' = "exit"
          /\ faults' = faults
    /\ UNCHANGED <<sanVars, remote, fsVars, passVars, procVars, umVars, downloads,
                   ghostVars>>

\* main.rs:49-54: TRUE when ensure_credentials bails
ensure_credentials(c) ==
    c.factorio.username = "XXX" \/ c.factorio.token = "XXX"

\* main.rs:19
EnsureCredentials ==
    /\ pc = "credentials"
    /\ pc' = IF ensure_credentials(cfg) THEN "exit" ELSE "startup"
    /\ UNCHANGED <<envVars, fsVars, passVars, procVars, umVars, downloads, ghostVars,
                   cfgVars, sanVars>>

\* main.rs:21-40: the startup checks pass; cleanup_temp_dir only warns when it
\* fails
Main ==
    /\ pc = "startup"
    /\ \/ /\ temp' = TempAbsent
          /\ faults' = faults
       \/ /\ temp.exists
          /\ CanFail
          /\ faults' = faults + 1
          /\ temp' = temp
    /\ pc' = "read_dir"
    /\ UNCHANGED <<sanVars, cfgVars, run, remote, data, passVars, procVars, umVars, downloads, ghostVars>>

\* main.rs:43-46: check_mod_updates has returned
MainReturn ==
    /\ pc = "pass_done"
    /\ pc' = "exit"
    /\ UNCHANGED <<sanVars, cfgVars, envVars, fsVars, passVars, procVars, umVars, downloads, ghostVars>>

\* main.rs:12: the program is started again later (it is part of a server
\* restart routine); data/, temp/ and the portal are as the last run left them
Rerun ==
    /\ pc = "exit"
    /\ run < MaxRuns
    /\ pc' = "main"
    /\ UNCHANGED <<sanVars, cfgVars, envVars, fsVars, passVars, procVars, umVars, downloads, ghostVars>>

\* ------------------------------------------------------- check_mod_updates
\* check_update.rs:30-34
CheckModUpdates ==
    /\ pc = "read_dir"
    /\ visited' = <<>>
    /\ entry' = <<>>
    /\ outcome' = NoOutcome
    /\ \/ /\ dir_pending' = Present(data)
          /\ result' = "none"
          /\ pass_exit' = "none"
          /\ pc' = "next_entry"
          /\ faults' = faults
       \/ /\ CanFail
          /\ faults' = faults + 1
          /\ dir_pending' = {}
          /\ result' = "Err"
          /\ pass_exit' = "read_dir"
          /\ pc' = "pass_done"
    /\ UNCHANGED <<sanVars, cfgVars, run, remote, fsVars, procVars, umVars, downloads, ghostVars>>

\* the pass ends in an error when a mod has failed
NextEntryOrFirstError ==
    /\ pc = "next_entry"
    /\ \/ /\ dir_pending = {}
          /\ result' = IF \E n \in AllNames : outcome[n] = "failed"
                       THEN "Err" ELSE "Ok"
          /\ pass_exit' = "end"
          /\ pc' = "pass_done"
          /\ UNCHANGED <<dir_pending, visited, entry, faults, at_entry>>
       \/ /\ \E e \in dir_pending :
                /\ entry' = e
                /\ dir_pending' = dir_pending \ {e}
                /\ visited' = Append(visited, e)
          /\ at_entry' = Snapshot
          /\ pc' = "should_process"
          /\ UNCHANGED <<result, pass_exit, faults>>
       \/ /\ CanFail
          /\ faults' = faults + 1
          /\ result' = "Err"
          /\ pass_exit' = "next_entry"
          /\ pc' = "pass_done"
          /\ UNCHANGED <<dir_pending, visited, entry, at_entry>>
    /\ UNCHANGED <<sanVars, cfgVars, run, remote, fsVars, outcome, procVars, umVars, downloads, committed, um_log>>

\* check_update.rs:36-37 and 46-47: dir.next_entry().await?
NextEntry ==
    /\ pc = "next_entry"
    /\ \/ /\ dir_pending = {}
          /\ result' = "Ok"
          /\ pass_exit' = "end"
          /\ pc' = "pass_done"
          /\ UNCHANGED <<dir_pending, visited, entry, faults, at_entry>>
       \/ /\ \E e \in dir_pending :
                /\ entry' = e
                /\ dir_pending' = dir_pending \ {e}
                /\ visited' = Append(visited, e)
          /\ at_entry' = Snapshot
          /\ pc' = "should_process"
          /\ UNCHANGED <<result, pass_exit, faults>>
       \/ /\ CanFail
          /\ faults' = faults + 1
          /\ result' = "Err"
          /\ pass_exit' = "next_entry"
          /\ pc' = "pass_done"
          /\ UNCHANGED <<dir_pending, visited, entry, at_entry>>
    /\ UNCHANGED <<sanVars, cfgVars, run, remote, fsVars, outcome, procVars, umVars, downloads, committed, um_log>>

\* check_update.rs:51-66
should_process_mod(name, content, metadata_ok) ==
    LET is_dir == metadata_ok /\ IsDir(content)
        skip   == ~is_dir \/ name = N_base \/ name = N_core
    IN ~skip

\* check_update.rs:38-40
ShouldProcessMod ==
    /\ pc = "should_process"
    /\ \E metadata_ok \in {TRUE, FALSE} :
          /\ ~metadata_ok => CanFail
          /\ faults' = IF metadata_ok THEN faults ELSE faults + 1
          /\ IF should_process_mod(entry, data[entry], metadata_ok)
             THEN /\ pc' = "read_local_info"
                  /\ outcome' = outcome
             ELSE /\ pc' = "next_entry"
                  /\ outcome' = [outcome EXCEPT ![entry] = "skipped"]
    /\ UNCHANGED <<sanVars, cfgVars, run, remote, fsVars, dir_pending, visited, entry, result,
                   pass_exit, procVars, umVars, downloads, ghostVars>>

\* --------------------------------------------------------- process_mod_dir
\* check_update.rs:70 and 85-91: read_local_info(&path).await?
ReadLocalInfo ==
    /\ pc = "read_local_info"
    /\ \/ /\ IsDir(data[entry])
          /\ data[entry].info.json = "ok"
          /\ local' = [name |-> data[entry].info.name,
                       version |-> data[entry].info.version]
          /\ pc' = "fetch"
          /\ UNCHANGED <<p_result, faults>>
       \/ /\ ~(IsDir(data[entry]) /\ data[entry].info.json = "ok")
          /\ p_result' = [ret |-> "Err", how |-> "read_local_info"]
          /\ pc' = "process_ret"
          /\ UNCHANGED <<local, faults>>
       \/ /\ CanFail
          /\ faults' = faults + 1
          /\ p_result' = [ret |-> "Err", how |-> "read_local_info"]
          /\ pc' = "process_ret"
          /\ UNCHANGED local
    /\ UNCHANGED <<sanVars, cfgVars, run, remote, fsVars, passVars, releases, latest, umVars, downloads, ghostVars>>

\* check_update.rs:73 and 94-99: fetch_remote_releases(&local.name, client).await?
FetchRemoteReleases ==
    /\ pc = "fetch"
    /\ \/ /\ \E l \in ListsOf(local.name) :
                /\ remote[local.name].known => l = remote[local.name].list
                /\ remote' = [remote EXCEPT ![local.name] = Served(l)]
                /\ releases' = l
          /\ pc' = "pick"
          /\ UNCHANGED <<p_result, faults>>
       \/ /\ CanFail
          /\ faults' = faults + 1
          /\ p_result' = [ret |-> "Err", how |-> "fetch"]
          /\ pc' = "process_ret"
          /\ UNCHANGED <<releases, remote>>
    /\ UNCHANGED <<sanVars, cfgVars, run, fsVars, passVars, local, latest, umVars, downloads, ghostVars>>

\* a list without a valid release is an error of the mod
PickLatestOrErr ==
    /\ pc = "pick"
    /\ latest' = pick_latest(releases)
    /\ IF latest'.some
       THEN /\ pc' = "compare"
            /\ UNCHANGED p_result
       ELSE /\ pc' = "process_ret"
            /\ p_result' = [ret |-> "Err", how |-> "norelease"]
    /\ UNCHANGED <<sanVars, cfgVars, envVars, fsVars, passVars, local, releases, umVars, downloads, ghostVars>>

\* check_update.rs:76-81
PickLatest ==
    /\ pc = "pick"
    /\ latest' = pick_latest(releases)
    /\ IF latest'.some
       THEN /\ pc' = "compare"
            /\ UNCHANGED p_result
       ELSE /\ pc' = "process_ret"
            /\ p_result' = [ret |-> "Ok", how |-> "norelease"]
    /\ UNCHANGED <<sanVars, cfgVars, envVars, fsVars, passVars, local, releases, umVars, downloads, ghostVars>>

\* the operands of the comparison are swapped
NoUpdateNeededSwapped(remote_ver, local_ver) == VersionCmp(local_ver, remote_ver) <= 0

\* the comparison is strict: an equal version is installed again
NoUpdateNeededStrict(remote_ver, local_ver) == VersionCmp(remote_ver, local_ver) < 0

\* check_update.rs:121: remote_ver <= local_ver
NoUpdateNeeded(remote_ver, local_ver) == VersionCmp(remote_ver, local_ver) <= 0

\* check_update.rs:110-137, up to the call of update_mod
CompareAndUpdate ==
    /\ pc = "compare"
    /\ LET local_ver == VersionParse(local.version) IN
       IF ~local_ver.ok
       THEN /\ p_result' = [ret |-> "Err", how |-> "local_version"]
            /\ pc' = "process_ret"
            /\ UNCHANGED <<um_args, um_result, um_exit, data_at_call>>
       ELSE IF NoUpdateNeeded(latest.ver, local_ver.v)
       THEN /\ p_result' = [ret |-> "Ok", how |-> "uptodate"]
            /\ pc' = "process_ret"
            /\ UNCHANGED <<um_args, um_result, um_exit, data_at_call>>
       ELSE /\ um_args' = [download_url |-> latest.rel.download_url,
                           expected_sha |-> latest.rel.sha1]
            /\ um_result' = "none"
            /\ um_exit' = "none"
            /\ data_at_call' = data
            /\ pc' = "um_url"
            /\ UNCHANGED p_result
    /\ UNCHANGED <<sanVars, cfgVars, envVars, fsVars, passVars, local, releases, latest,
                   bytes, raw, entries, downloads, at_entry, committed>>
    /\ um_log' = <<>>

\* check_update.rs:138-141: update_mod(..).await? has returned
UpdateModReturn ==
    /\ pc = "um_ret"
    /\ p_result' = IF um_result = "Ok"
                   THEN [ret |-> "Ok", how |-> "updated"]
                   ELSE [ret |-> "Err", how |-> "update_mod"]
    /\ um_args' = NoArgs
    /\ bytes' = "none"
    /\ raw' = NoRaw
    /\ entries' = {}
    /\ um_result' = "none"
    /\ um_exit' = "none"
    /\ data_at_call' = data
    /\ pc' = "process_ret"
    /\ UNCHANGED <<sanVars, cfgVars, envVars, fsVars, passVars, local, releases, latest, downloads, at_entry, committed>>
    /\ um_log' = <<>>

\* the error of one mod is passed on with `?` and ends the pass
ProcessModDirReturnOrAbort ==
    /\ pc = "process_ret"
    /\ outcome' = [outcome EXCEPT ![entry] =
                       IF p_result.ret = "Err" THEN "failed" ELSE p_result.how]
    /\ local' = NoLocal
    /\ releases' = <<>>
    /\ latest' = NoneLatest
    /\ p_result' = NoResult
    /\ IF p_result.ret = "Err"
       THEN /\ pc' = "pass_done"
            /\ result' = "Err"
            /\ pass_exit' = "process_mod_dir"
       ELSE /\ pc' = "next_entry"
            /\ UNCHANGED <<result, pass_exit>>
    /\ UNCHANGED <<sanVars, cfgVars, envVars, fsVars, dir_pending, visited, entry, umVars,
                   downloads, ghostVars>>

\* check_update.rs:41-43: the error of one mod is logged and the loop goes on
ProcessModDirReturn ==
    /\ pc = "process_ret"
    /\ outcome' = [outcome EXCEPT ![entry] =
                       IF p_result.ret = "Err" THEN "failed" ELSE p_result.how]
    /\ local' = NoLocal
    /\ releases' = <<>>
    /\ latest' = NoneLatest
    /\ p_result' = NoResult
    /\ pc' = "next_entry"
    /\ UNCHANGED <<sanVars, cfgVars, envVars, fsVars, dir_pending, visited, entry, result,
                   pass_exit, umVars, downloads, ghostVars>>

\* -------------------------------------------------------------- update_mod
\* a `?` or `return Err(..)` of update_mod
UmFail(reason) ==
    /\ um_result' = "Err"
    /\ um_exit' = reason
    /\ pc' = "um_ret"

\* a step of update_mod is noted when it has succeeded
StepDone(step, ok) ==
    um_log' = IF ok THEN Append(um_log, step) ELSE um_log

\* mod_updater.rs:117: the install folder name
NeatOf(r) == TrimEndZip(r.folder)

\* mod_updater.rs:18-40: create data/, build and parse the download URL
UmBuildUrl ==
    /\ pc = "um_url"
    /\ \/ /\ CanFail
          /\ faults' = faults + 1
          /\ UmFail("create_data")
       \/ /\ ~UrlParses(BaseUrl(um_args.download_url))
          /\ faults' = faults
          /\ UmFail("invalid_url")
       \/ /\ UrlParses(BaseUrl(um_args.download_url))
          /\ faults' = faults
          /\ pc' = "um_get"
          /\ UNCHANGED <<um_result, um_exit>>
    /\ UNCHANGED <<sanVars, cfgVars, run, remote, fsVars, passVars, procVars, um_args, bytes, raw,
                   entries, data_at_call, downloads, ghostVars>>

\* mod_updater.rs:42-59: download the archive into memory
UmDownload ==
    /\ pc = "um_get"
    /\ downloads' = downloads + 1
    /\ LET resp == HttpGet(BaseUrl(um_args.download_url)) IN
       \/ /\ CanFail
          /\ faults' = faults + 1
          /\ UmFail("network")
          /\ UNCHANGED bytes
       \/ /\ resp.status # 200
          /\ faults' = faults
          /\ UmFail("http_status")
          /\ UNCHANGED bytes
       \/ /\ resp.status = 200
          /\ faults' = faults
          /\ bytes' = resp.body
          /\ pc' = "um_sha"
          /\ UNCHANGED <<um_result, um_exit>>
    /\ UNCHANGED <<sanVars, cfgVars, run, remote, fsVars, passVars, procVars, um_args, raw,
                   entries, data_at_call, at_entry, committed>>
    /\ StepDone("download", pc' = "um_sha")

\* mod_updater.rs:61-78: SHA-1 check
UmVerifySha ==
    /\ pc = "um_sha"
    /\ LET got_sha == LowerHex(Sha1(bytes)) IN
       IF ShaAccepts(got_sha, um_args.expected_sha)
       THEN /\ pc' = "um_temp"
            /\ UNCHANGED <<um_result, um_exit>>
       ELSE UmFail("sha_mismatch")
    /\ UNCHANGED <<sanVars, cfgVars, envVars, fsVars, passVars, procVars, um_args, bytes, raw,
                   entries, data_at_call, downloads, at_entry, committed>>
    /\ StepDone("verify", pc' = "um_temp")

\* temp/ is created without removing what is in it
UmPrepareTempKeepingFiles ==
    /\ pc = "um_temp"
    /\ \/ /\ temp.exists
          /\ CanFail
          /\ faults' = faults + 1
          /\ temp' = temp
          /\ UmFail("temp_remove")
       \/ /\ CanFail
          /\ faults' = faults + 1
          /\ temp' = TempAbsent
          /\ UmFail("temp_create")
       \/ /\ faults' = faults
          /\ temp' = TempWith(temp.files)
          /\ pc' = "um_extract"
          /\ UNCHANGED <<um_result, um_exit>>
    /\ UNCHANGED <<sanVars, cfgVars, run, remote, data, passVars, procVars, um_args, bytes, raw,
                   entries, data_at_call, downloads, at_entry, committed>>
    /\ StepDone("scratch", pc' = "um_extract")

\* mod_updater.rs:80-87: remove a leftover temp/ and create it anew
UmPrepareTemp ==
    /\ pc = "um_temp"
    /\ \/ /\ temp.exists
          /\ CanFail
          /\ faults' = faults + 1
          /\ temp' = temp
          /\ UmFail("temp_remove")
       \/ /\ CanFail
          /\ faults' = faults + 1
          /\ temp' = TempAbsent
          /\ UmFail("temp_create")
       \/ /\ faults' = faults
          /\ temp' = TempWith({})
          /\ pc' = "um_extract"
          /\ UNCHANGED <<um_result, um_exit>>
    /\ UNCHANGED <<sanVars, cfgVars, run, remote, data, passVars, procVars, um_args, bytes, raw,
                   entries, data_at_call, downloads, at_entry, committed>>
    /\ StepDone("scratch", pc' = "um_extract")

\* the error of extract() is not passed on
UmExtractUnchecked ==
    /\ pc = "um_extract"
    /\ \/ /\ ArchiveOf(bytes).zip = "bad"
          /\ faults' = faults
          /\ temp' = temp
          /\ UmFail("bad_zip")
       \/ /\ ArchiveOf(bytes).zip = "ok"
          /\ CanFail
          /\ faults' = faults + 1
          /\ temp' = TempWith({bytes})
          /\ pc' = "um_find"
          /\ UNCHANGED <<um_result, um_exit>>
       \/ /\ ArchiveOf(bytes).zip = "ok"
          /\ faults' = faults
          /\ temp' = TempWith({bytes})
          /\ pc' = "um_find"
          /\ UNCHANGED <<um_result, um_exit>>
    /\ UNCHANGED <<sanVars, cfgVars, run, remote, data, passVars, procVars, um_args, bytes, raw,
                   entries, data_at_call, downloads, at_entry, committed>>
    /\ StepDone("extract", pc' = "um_find" /\ faults' = faults)

\* mod_updater.rs:89-95: open the ZIP and extract it into temp/
UmExtract ==
    /\ pc = "um_extract"
    /\ \/ /\ ArchiveOf(bytes).zip = "bad"
          /\ faults' = faults
          /\ temp' = temp
          /\ UmFail("bad_zip")
       \/ /\ ArchiveOf(bytes).zip = "ok"
          /\ CanFail
          /\ faults' = faults + 1
          /\ temp' = TempWith({bytes})
          /\ UmFail("extract")
       \/ /\ ArchiveOf(bytes).zip = "ok"
          /\ faults' = faults
          /\ temp' = TempWith({bytes})
          /\ pc' = "um_find"
          /\ UNCHANGED <<um_result, um_exit>>
    /\ UNCHANGED <<sanVars, cfgVars, run, remote, data, passVars, procVars, um_args, bytes, raw,
                   entries, data_at_call, downloads, at_entry, committed>>
    /\ StepDone("extract", pc' = "um_find")

\* without an info.json the root of the archive is taken to be temp/
UmLocateRootOrTemp ==
    /\ pc = "um_find"
    /\ LET found == {p \in temp.files : ArchiveOf(p).root # "none"} IN
       \/ /\ found = {}
          /\ faults' = faults
          /\ raw' = [root |-> "top", folder |-> N_temp, from |-> bytes]
          /\ pc' = "um_read_dir"
          /\ UNCHANGED <<um_result, um_exit>>
       \/ /\ found # {}
          /\ CanFail
          /\ faults' = faults + 1
          /\ UmFail("no_manifest")
          /\ UNCHANGED raw
       \/ \E p \in found :
             LET a == ArchiveOf(p) IN
             /\ faults' = faults
             /\ IF a.root = "badname"
                THEN /\ UmFail("bad_folder_name")
                     /\ UNCHANGED raw
                ELSE /\ raw' = [root |-> a.root, folder |-> a.folder, from |-> p]
                     /\ pc' = "um_read_dir"
                     /\ UNCHANGED <<um_result, um_exit>>
    /\ UNCHANGED <<sanVars, cfgVars, run, remote, fsVars, passVars, procVars, um_args, bytes,
                   entries, data_at_call, downloads, at_entry, committed>>
    /\ StepDone("locate", pc' = "um_read_dir")

\* mod_updater.rs:97-118: find the folder of the first info.json the walk of
\* temp/ meets and take its name; entries the walk cannot read are dropped
\* (filter_map(|e| e.ok()))
UmLocateRoot ==
    /\ pc = "um_find"
    /\ LET found == {p \in temp.files : ArchiveOf(p).root # "none"} IN
       \/ /\ found = {}
          /\ faults' = faults
          /\ UmFail("no_manifest")
          /\ UNCHANGED raw
       \/ /\ found # {}
          /\ CanFail
          /\ faults' = faults + 1
          /\ UmFail("no_manifest")
          /\ UNCHANGED raw
       \/ \E p \in found :
             LET a == ArchiveOf(p) IN
             /\ faults' = faults
             /\ IF a.root = "badname"
                THEN /\ UmFail("bad_folder_name")
                     /\ UNCHANGED raw
                ELSE /\ raw' = [root |-> a.root, folder |-> a.folder, from |-> p]
                     /\ pc' = "um_read_dir"
                     /\ UNCHANGED <<um_result, um_exit>>
    /\ UNCHANGED <<sanVars, cfgVars, run, remote, fsVars, passVars, procVars, um_args, bytes,
                   entries, data_at_call, downloads, at_entry, committed>>
    /\ StepDone("locate", pc' = "um_read_dir")

\* mod_updater.rs:120-123: read_dir(data_dir).await?
UmReadDir ==
    /\ pc = "um_read_dir"
    /\ \/ /\ CanFail
          /\ faults' = faults + 1
          /\ UmFail("read_dir")
          /\ UNCHANGED entries
       \/ /\ faults' = faults
          /\ entries' = Present(data)
          /\ pc' = "um_remove"
          /\ UNCHANGED <<um_result, um_exit>>
    /\ UNCHANGED <<sanVars, cfgVars, run, remote, fsVars, passVars, procVars, um_args, bytes, raw,
                   data_at_call, downloads, ghostVars>>

\* what a remove_dir_all that fails may leave of the directory
PartlyRemoved(c) == IF c.empty THEN {c} ELSE {c, DirWith(NoInfo)}

\* mod_updater.rs:124-134: one iteration of the loop over data/; the entries
\* of a directory that changes while it is read may or may not be returned
\* to the read_dir of check_mod_updates
UmRemoveOld ==
    /\ pc = "um_remove"
    /\ entries # {}
    /\ \/ /\ CanFail
          /\ faults' = faults + 1
          /\ UmFail("next_entry")
          /\ UNCHANGED <<data, entries, dir_pending>>
       \/ \E e \in entries :
             /\ entries' = entries \ {e}
             /\ IF IsDir(data[e]) /\ IsOldVersion(e, SlugOf(NeatOf(raw)), NeatOf(raw))
                THEN \/ /\ faults' = faults
                        /\ data' = [data EXCEPT ![e] = Absent]
                        /\ dir_pending' \in {dir_pending, dir_pending \ {e}}
                        /\ UNCHANGED <<pc, um_result, um_exit>>
                     \/ /\ CanFail
                        /\ faults' = faults + 1
                        /\ \E c \in PartlyRemoved(data[e]) :
                              data' = [data EXCEPT ![e] = c]
                        /\ UmFail("remove_old")
                        /\ UNCHANGED dir_pending
                ELSE /\ faults' = faults
                     /\ UNCHANGED <<pc, data, dir_pending, um_result, um_exit>>
    /\ UNCHANGED <<sanVars, cfgVars, run, remote, temp, visited, entry, outcome, result, pass_exit,
                   procVars, um_args, bytes, raw, data_at_call, downloads, at_entry, committed>>
    /\ StepDone("remove", data' # data)

\* rename(2) of a directory onto dest: "ok", "fail", or "either" where the
\* platforms differ (an empty directory is replaced on Unix only)
RenameOnto(dest_content) ==
    CASE dest_content.kind = "absent" -> "ok"
      [] dest_content.kind = "file"   -> "fail"
      [] OTHER -> IF dest_content.empty THEN "either" ELSE "fail"

\* mod_updater.rs:134-139: the loop is over; move the extracted folder to
\* data/{neat}
UmRename ==
    /\ pc = "um_remove"
    /\ entries = {}
    /\ LET dest == NeatOf(raw)
           how  == RenameOnto(data[dest])
       IN
       \/ /\ how \in {"ok", "either"}
          /\ faults' = faults
          /\ data' = [data EXCEPT ![dest] = DirWith(ArchiveOf(raw.from).info)]
          /\ temp' = IF raw.root = "top" THEN TempAbsent ELSE temp
          /\ dir_pending' \in {dir_pending, dir_pending \cup {dest}}
          /\ committed' = [committed EXCEPT ![dest] =
                               [run |-> run, name |-> local.name, ver |-> latest.ver]]
          /\ pc' = "um_cleanup"
          /\ UNCHANGED <<um_result, um_exit>>
       \/ /\ how \in {"fail", "either"}
          /\ faults' = faults
          /\ UmFail("rename")
          /\ UNCHANGED <<data, temp, dir_pending, committed>>
       \/ /\ how = "ok"
          /\ CanFail
          /\ faults' = faults + 1
          /\ UmFail("rename")
          /\ UNCHANGED <<data, temp, dir_pending, committed>>
    /\ UNCHANGED <<sanVars, cfgVars, run, remote, visited, entry, outcome, result, pass_exit,
                   procVars, um_args, bytes, raw, entries, data_at_call, downloads,
                   at_entry>>
    /\ StepDone("rename", pc' = "um_cleanup")

\* mod_updater.rs:141-146: remove temp/ and return Ok
UmCleanup ==
    /\ pc = "um_cleanup"
    /\ \/ /\ ~temp.exists
          /\ faults' = faults
          /\ temp' = temp
          /\ UmFail("cleanup")
       \/ /\ temp.exists
          /\ CanFail
          /\ faults' = faults + 1
          /\ temp' = temp
          /\ UmFail("cleanup")
       \/ /\ temp.exists
          /\ faults' = faults
          /\ temp' = TempAbsent
          /\ um_result' = "Ok"
          /\ um_exit' = "ok"
          /\ pc' = "um_ret"
    /\ UNCHANGED <<sanVars, cfgVars, run, remote, data, passVars, procVars, um_args, bytes, raw,
                   entries, data_at_call, downloads, at_entry, committed>>
    /\ StepDone("cleanup", um_result' = "Ok")

\* -------------------------------------------------------------- the program
Next ==
    \/ LoadOrInit
    \/ EnsureCredentials
    \/ Main
    \/ MainReturn
    \/ CheckModUpdates
    \/ NextEntry
    \/ ShouldProcessMod
    \/ ReadLocalInfo
    \/ FetchRemoteReleases
    \/ PickLatest
    \/ CompareAndUpdate
    \/ UpdateModReturn
    \/ ProcessModDirReturn
    \/ UmBuildUrl
    \/ UmDownload
    \/ UmVerifySha
    \/ UmPrepareTemp
    \/ UmExtract
    \/ UmLocateRoot
    \/ UmReadDir
    \/ UmRemoveOld
    \/ UmRename
    \/ UmCleanup

\* one run of the program
Spec == Init /\ [][Next]_vars

\* several runs of the program, one after the other
InitRerun ==
    /\ pc = "main"
    /\ config_file = Doc(ToDoc(GoodConfig))
    /\ cfg = NoConfig
    /\ san = NoSan
    /\ data \in LayoutsUpTo(MaxRerunEntries)
    /\ temp \in {TempAbsent, Leftover}
    /\ releases = <<>>
    /\ um_args = NoArgs
    /\ bytes = "none"
    /\ Idle

NextRerun == Next \/ Rerun

SpecRerun == InitRerun /\ [][NextRerun]_vars

\* one run of the program from every settings file
InitConfig ==
    /\ pc = "main"
    /\ config_file \in ConfigFiles
    /\ cfg = NoConfig
    /\ san = NoSan
    /\ data \in LayoutsUpTo(MaxRerunEntries)
    /\ temp \in {TempAbsent, Leftover}
    /\ releases = <<>>
    /\ um_args = NoArgs
    /\ bytes = "none"
    /\ Idle

NextConfig == Next

SpecConfig == InitConfig /\ [][NextConfig]_vars

\* ------------------------------------- sanitize_section on its own inputs
\* a section of the settings file: any table over allowed and other keys,
\* or a value that is not a table
TablesOver(keys, values) ==
    UNION { { Table(m) : m \in [K -> values] } : K \in SUBSET keys }

SanitizeSections(section) ==
    IF section = "factorio"
    THEN TablesOver({"username", "token", "password"}, {Str("alice"), Bool("true")})
         \cup {Str("alice")}
    ELSE TablesOver(ALLOWED_SECTION_KEYS("mod-manager") \cup {"autoupdate"},
                    {Bool("false"), Str("yes")})
         \cup {Bool("true")}

SanitizeRoots ==
    UNION { { [s \in S |-> IF s = "factorio" THEN f ELSE m] :
                f \in SanitizeSections("factorio"),
                m \in SanitizeSections("mod-manager") } :
            S \in SUBSET Sections }

InitSanitize ==
    /\ pc = "sanitize"
    /\ \E r \in SanitizeRoots :
          /\ config_file = Doc(r)
          /\ san = [NoSan EXCEPT !.first = r, !.before = r]
    /\ cfg = NoConfig
    /\ data = [n \in AllNames |-> Absent]
    /\ temp = TempAbsent
    /\ releases = <<>>
    /\ um_args = NoArgs
    /\ bytes = "none"
    /\ Idle

\* config.rs:101: sanitize_section on the root table, for one known section
SanitizeSection ==
    /\ pc = "sanitize"
    /\ \E section \in Sections :
          /\ san.times[section] < MaxSanitize
          /\ config_file' = Doc(sanitize_section(config_file.root, section,
                                                 ALLOWED_SECTION_KEYS(section),
                                                 DefaultSection(section)))
          /\ san' = [san EXCEPT !.before = config_file.root,
                                !.last = section,
                                !.times[section] = @ + 1]
    /\ UNCHANGED <<pc, cfg, envVars, fsVars, passVars, procVars, umVars, downloads,
                   ghostVars>>

NextSanitize == SanitizeSection

SpecSanitize == InitSanitize /\ [][NextSanitize]_vars

\* ------------------------------------------- pick_latest on its own inputs
\* version strings: every x.y.z, and two strings that do not parse
VerStrings ==
    [1..3 -> 0..MaxVerNum] \cup {<<>>, VBad}

PickReleases ==
    { GoodRelease(v, "pA2") : v \in VerStrings }

PickInputs ==
    UNION { [1..k -> PickReleases] : k \in 0..MaxReleases }

\* process_mod_dir is about to call pick_latest on some fetched list
InitPick ==
    /\ pc = "pick"
    /\ config_file = Doc(ToDoc(GoodConfig))
    /\ cfg = GoodConfig
    /\ san = NoSan
    /\ data = [n \in AllNames |-> IF n = N_a1 THEN DirWith(Info("m1", V100)) ELSE Absent]
    /\ temp = TempAbsent
    /\ releases \in PickInputs
    /\ um_args = NoArgs
    /\ bytes = "none"
    /\ Idle

NextPick == PickLatest

SpecPick == InitPick /\ [][NextPick]_vars

\* ---------------------------------------- the SHA-1 check on its own inputs
HexAlphabet == {"1", "a", "b", "A", "B"}

ExpectedHashes == [1..(2 * DigestLen) -> HexAlphabet]

\* update_mod has downloaded some payload and is about to check it against
\* some expected hash
InitSha ==
    /\ pc = "um_sha"
    /\ config_file = Doc(ToDoc(GoodConfig))
    /\ cfg = GoodConfig
    /\ san = NoSan
    /\ data = [n \in AllNames |-> IF n = N_a1 THEN DirWith(Info("m1", V100)) ELSE Absent]
    /\ temp = TempAbsent
    /\ releases = <<>>
    /\ bytes \in Payloads
    /\ \E h \in ExpectedHashes :
          um_args = [download_url |-> <<bytes>>, expected_sha |-> h]
    /\ Idle

NextSha == UmVerifySha

SpecSha == InitSha /\ [][NextSha]_vars

\* --------------------------------------------------------------- properties
InUpdateMod ==
    pc \in {"um_url", "um_get", "um_sha", "um_temp", "um_extract", "um_find",
            "um_read_dir", "um_remove", "um_cleanup", "um_ret"}

\* the returns of update_mod that come before the rename has succeeded
ExitsBeforeRename ==
    {"create_data", "invalid_url", "network", "http_status", "sha_mismatch",
     "temp_remove", "temp_create", "bad_zip", "extract", "no_manifest",
     "bad_folder_name", "read_dir", "next_entry", "remove_old", "rename"}

\* the returns of update_mod that come after it has created temp/
ExitsAfterScratch ==
    {"ok", "bad_zip", "extract", "no_manifest", "bad_folder_name", "read_dir",
     "next_entry", "remove_old", "rename"}

\* C1: at every return of update_mod that comes before the rename has
\* succeeded, the set of directories under data/ is the one update_mod was
\* called with.
C1_RootUnchangedBeforeRename ==
    (pc = "um_ret" /\ um_exit \in ExitsBeforeRename)
        => Dirs(data) = Dirs(data_at_call)

\* the digest of the downloaded payload differs from the expected hash
ShaDiffers ==
    /\ bytes # "none"
    /\ LowerHex(Sha1(bytes)) # um_args.expected_sha

\* C2: once the SHA-1 check has run on a payload whose digest differs from
\* the expected hash, update_mod has returned an error and data/ is exactly
\* as it was at the call: nothing created, removed or renamed.
C2_MismatchLeavesRoot ==
    (ShaDiffers /\ pc # "um_sha")
        => (pc = "um_ret" /\ um_result = "Err" /\ data = data_at_call)

C2_Witness ==
    /\ pc = "um_ret"
    /\ um_exit = "sha_mismatch"
    /\ ShaDiffers
    /\ Dirs(data) # {}

\* the directories of d that count as versions of the package installed as neat
SlugDirs(d, neat) ==
    {n \in Dirs(d) : n = neat \/ StartsWith(n, Append(SlugOf(neat), "_"))}

\* C3 as stated: after update_mod returns Ok, the only directory under data/
\* whose name begins with the slug is the one with the canonical name, and
\* temp/ does not exist.
C3_OneDirBeginningWithSlug ==
    (pc = "um_ret" /\ um_result = "Ok")
        => /\ {n \in Dirs(data) : StartsWith(n, SlugOf(NeatOf(raw)))} = {NeatOf(raw)}
           /\ ~temp.exists

\* C3 amended: after update_mod returns Ok, the only directory under data/
\* whose name is the canonical name or begins with the slug followed by '_'
\* is the one with the canonical name, and temp/ does not exist.
C3_OneDirOfSlug ==
    (pc = "um_ret" /\ um_result = "Ok")
        => /\ SlugDirs(data, NeatOf(raw)) = {NeatOf(raw)}
           /\ ~temp.exists

C3_Witness ==
    /\ pc = "um_ret"
    /\ um_result = "Ok"
    /\ \E n \in Dirs(data_at_call) :
          IsOldVersion(n, SlugOf(NeatOf(raw)), NeatOf(raw))
    /\ NeatOf(raw) \in Dirs(data)

\* C4: whenever update_mod returns after it has created temp/, temp/ does
\* not exist.
C4_ScratchRemovedOnEveryExit ==
    (pc = "um_ret" /\ um_exit \in ExitsAfterScratch) => ~temp.exists

\* the entry returned by next_entry is being handled
Processing ==
    pc \in {"should_process", "read_local_info", "fetch", "pick", "compare",
            "process_ret"} \/ InUpdateMod

Outcomes == {"skipped", "failed", "norelease", "uptodate", "updated"}

\* C5: check_mod_updates never returns because a mod failed: it returns from
\* next_entry only, and when the listing is exhausted it returns Ok with
\* every entry it was given handled to an outcome of its own, whatever
\* failed before it.
C5_FailureDoesNotStopPass ==
    (pc = "pass_done" /\ \E i \in 1..Len(visited) : outcome[visited[i]] = "failed")
        => /\ pass_exit \in {"end", "next_entry"}
           /\ pass_exit = "end" =>
                 /\ result = "Ok"
                 /\ dir_pending = {}
                 /\ \A i \in 1..Len(visited) : outcome[visited[i]] \in Outcomes

C5_Witness ==
    /\ pc = "pass_done"
    /\ result = "Ok"
    /\ Len(visited) >= 2
    /\ outcome[visited[1]] = "failed"
    /\ outcome[visited[2]] \in {"uptodate", "updated"}

Parsable(r) == VersionParse(r.version).ok

\* C6: from a list with at least one version that parses, pick_latest
\* returns a release of the list whose version parses and is greater than
\* or equal to every version of the list that parses.
C6_PickLatestIsMaxValid ==
    (pc \in {"compare", "process_ret"}
        /\ \E i \in 1..Len(releases) : Parsable(releases[i]))
        => /\ latest.some
           /\ \E i \in 1..Len(releases) : releases[i] = latest.rel
           /\ Parsable(latest.rel)
           /\ latest.ver = VersionParse(latest.rel.version).v
           /\ \A i \in 1..Len(releases) :
                 Parsable(releases[i]) =>
                     VersionCmp(VersionParse(releases[i].version).v, latest.ver) <= 0

C6_Witness ==
    /\ pc = "compare"
    /\ Len(releases) = 3
    /\ ~Parsable(releases[3])
    /\ Parsable(releases[1])
    /\ Parsable(releases[2])
    /\ VersionCmp(VersionParse(releases[1].version).v,
                  VersionParse(releases[2].version).v) > 0
    /\ latest.rel = releases[1]

EqIgnoreCase(a, b) == UpperHex(a) = UpperHex(b)

\* C7: the SHA-1 check lets the payload through iff its hex digest equals
\* the expected hash when case is ignored.
C7_AcceptsIffEqualIgnoringCase ==
    (bytes # "none" /\ pc \in {"um_temp", "um_ret"})
        => ((pc = "um_temp") <=>
                EqIgnoreCase(LowerHex(Sha1(bytes)), um_args.expected_sha))

\* the selected version is not newer than the local one
NotNewer ==
    /\ latest.some
    /\ VersionParse(local.version).ok
    /\ VersionCmp(latest.ver, VersionParse(local.version).v) <= 0

\* C8: while a mod whose selected version is less than or equal to its local
\* version is handled, update_mod is not entered, no archive is downloaded
\* and data/ and temp/ stay as they were when the entry was returned.
C8_NoOpWhenNotNewer ==
    NotNewer => (~InUpdateMod /\ Snapshot = at_entry)

C8_Witness ==
    /\ pc = "process_ret"
    /\ p_result = [ret |-> "Ok", how |-> "uptodate"]
    /\ latest.some
    /\ latest.ver = VersionParse(local.version).v
    /\ Len(releases) > 0

\* the folder e was installed by an earlier run, and its manifest carries the
\* mod name and the version that run selected
InstalledEarlier(e) ==
    /\ e \in AllNames
    /\ committed[e].run > 0
    /\ committed[e].run < run
    /\ IsDir(data[e])
    /\ data[e].info.json = "ok"
    /\ data[e].info.name = committed[e].name
    /\ VersionParse(data[e].info.version).ok
    /\ VersionParse(data[e].info.version).v = committed[e].ver

\* C9: when a later run handles a folder that an earlier run installed at
\* the version it selected, it does not enter update_mod, downloads nothing
\* and leaves data/ and temp/ as they were when the entry was returned.
C9_SecondRunIsNoOp ==
    (Processing /\ InstalledEarlier(entry))
        => (~InUpdateMod /\ Snapshot = at_entry)

C9_Witness ==
    /\ pc = "process_ret"
    /\ p_result = [ret |-> "Ok", how |-> "uptodate"]
    /\ InstalledEarlier(entry)
    /\ run = 2

\* the entry is a directory, is not base or core, and holds an info.json
Qualifies(n, c) ==
    /\ IsDir(c)
    /\ n \notin {N_base, N_core}
    /\ c.info.json # "missing"

\* C10: only an entry that is a directory, is not base or core and holds an
\* info.json is handled as a mod, and no other entry is reported as failed.
C10_OnlyModsAreHandled ==
    /\ pc = "read_local_info" => Qualifies(entry, data[entry])
    /\ (pc = "process_ret" /\ p_result.ret = "Err")
          => Qualifies(entry, at_entry.data[entry])

\* what is left of a directory that update_mod removed or began to remove
RemovedOrPartly(before, after) ==
    after = Absent \/ after \in PartlyRemoved(before)

\* C11: while update_mod runs, an entry of data/ differs from what it was at
\* the call only if it is the folder with the canonical name, now a
\* directory, or a directory whose name starts with the slug followed by '_'
\* and is not the canonical name, now removed; every other entry, and so
\* every directory whose name does not start with the slug, is as it was.
C11_OnlySlugDirsChange ==
    InUpdateMod =>
        \A n \in AllNames :
            data[n] # data_at_call[n] =>
                /\ raw # NoRaw
                /\ \/ n = NeatOf(raw) /\ IsDir(data[n])
                   \/ /\ n # NeatOf(raw)
                      /\ IsDir(data_at_call[n])
                      /\ StartsWith(n, Append(SlugOf(NeatOf(raw)), "_"))
                      /\ RemovedOrPartly(data_at_call[n], data[n])

C11_Witness ==
    /\ pc = "um_ret"
    /\ um_result = "Ok"
    /\ data[N_a1] = Absent
    /\ IsDir(data_at_call[N_a1])
    /\ data_at_call[N_a2] = Absent
    /\ IsDir(data[N_a2])
    /\ IsDir(data[N_x1])
    /\ data[N_x1] = data_at_call[N_x1]

\* the release list came back from the portal and pick_latest found no
\* release in it whose version parses
PickedNone ==
    /\ pc \in {"compare", "process_ret"} \/ InUpdateMod
    /\ p_result.how \notin {"read_local_info", "fetch"}
    /\ \A i \in 1..Len(releases) : ~Parsable(releases[i])

\* C12: when the release list is empty or holds no version that parses,
\* process_mod_dir returns Ok without having called update_mod: nothing was
\* downloaded and data/ and temp/ are as they were when the entry was read.
C12_NoReleaseIsOk ==
    PickedNone =>
        /\ pc = "process_ret"
        /\ p_result.ret = "Ok"
        /\ um_args = NoArgs
        /\ Snapshot = at_entry

C12_Witness ==
    /\ PickedNone
    /\ pc = "process_ret"
    /\ Len(releases) > 0
    /\ p_result.ret = "Ok"

\* C13: check_mod_updates returns an error only when the listing of data/
\* itself failed (read_dir or next_entry); when the listing has been read to
\* its end the result is Ok, whatever the outcomes of the mods were.
C13_PassResultIgnoresModFailures ==
    pc = "pass_done" =>
        /\ result \in {"Ok", "Err"}
        /\ result = "Err" => pass_exit \in {"read_dir", "next_entry"}
        /\ dir_pending = {} /\ pass_exit = "end" => result = "Ok"

C13_Witness ==
    /\ pc = "pass_done"
    /\ result = "Ok"
    /\ Len(visited) = 2
    /\ outcome[visited[1]] = "failed"
    /\ outcome[visited[2]] = "failed"

\* credentials that stand for "not filled in": the value main.rs:50 tests
\* and the values config.rs:48-49 writes into a new settings file
Placeholder(c) ==
    \/ c.factorio.username \in {"XXX", DefaultConfig.factorio.username}
    \/ c.factorio.token \in {"XXX", DefaultConfig.factorio.token}

\* check_mod_updates has been called
InPass == pc \in {"read_dir", "next_entry", "pass_done"} \/ Processing

\* C14: check_mod_updates is never called with a placeholder username or
\* token, the values written into a new default settings file included.
C14_NoPassWithPlaceholders ==
    InPass => ~Placeholder(cfg)

\* the steps of update_mod in the order of the code
StepRank(step) ==
    CASE step = "download" -> 1
      [] step = "verify"   -> 2
      [] step = "scratch"  -> 3
      [] step = "extract"  -> 4
      [] step = "locate"   -> 5
      [] step = "remove"   -> 6
      [] step = "rename"   -> 7
      [] step = "cleanup"  -> 8

Done(step) == \E i \in 1..Len(um_log) : um_log[i] = step

\* C15: the steps of update_mod succeed in the order download, hash check,
\* scratch directory, extraction, manifest, removal of old versions, rename,
\* removal of the scratch directory, each once but for the removals; temp/
\* is not written before the hash has been checked and found equal, data/
\* is not changed before the archive is extracted and info.json located.
C15_StepsInOrder ==
    /\ \A i, j \in 1..Len(um_log) :
          i < j => \/ StepRank(um_log[i]) < StepRank(um_log[j])
                   \/ um_log[i] = "remove" /\ um_log[j] = "remove"
    /\ (InUpdateMod /\ temp # at_entry.temp) => (Done("verify") /\ ~ShaDiffers)
    /\ (InUpdateMod /\ data # data_at_call) => (Done("extract") /\ Done("locate"))
    /\ Done("rename") => IsDir(data[NeatOf(raw)])

C15_Witness ==
    /\ pc = "um_ret"
    /\ um_result = "Ok"
    /\ um_log = <<"download", "verify", "scratch", "extract", "locate",
                  "remove", "rename", "cleanup">>

\* the download, the archive or its content is one update_mod rejects: the
\* portal answers with a status that is not a success, the payload is not a
\* ZIP archive, or no folder of it holds an info.json
Rejected ==
    \/ /\ UrlParses(BaseUrl(um_args.download_url))
       /\ HttpGet(BaseUrl(um_args.download_url)).status # 200
    \/ /\ bytes # "none"
       /\ ArchiveOf(bytes).zip = "bad"
    \/ /\ bytes # "none"
       /\ ArchiveOf(bytes).root = "none"

\* C16: when the status is not a success, the archive is malformed or holds
\* no info.json, update_mod returns an error and data/ is as it was at the
\* call.
C16_RejectedLeavesRoot ==
    (pc = "um_ret" /\ Rejected) =>
        /\ um_result = "Err"
        /\ data = data_at_call

C16_Witness ==
    /\ pc = "um_ret"
    /\ um_exit = "no_manifest"
    /\ ArchiveOf(bytes).zip = "ok"
    /\ ArchiveOf(bytes).root = "none"
    /\ um_result = "Err"
    /\ Dirs(data) # {}

\* C17: when the extraction starts temp/ is empty, whatever was in it at
\* the call; so the info.json that is located and the folder that is
\* installed are those of the archive of this call.
C17_LeftoverScratchIsCleared ==
    /\ pc = "um_extract" => temp = TempWith({})
    /\ pc \in {"um_find", "um_read_dir", "um_remove"} => temp = TempWith({bytes})
    /\ (InUpdateMod /\ raw # NoRaw) =>
          /\ raw.from = bytes
          /\ raw.folder = ArchiveOf(bytes).folder
    /\ (InUpdateMod /\ Done("rename")) =>
          data[NeatOf(raw)] = DirWith(ArchiveOf(bytes).info)

C17_Witness ==
    /\ pc = "um_cleanup"
    /\ at_entry.temp.exists
    /\ at_entry.temp.files # {}
    /\ bytes \notin at_entry.temp.files
    /\ data[NeatOf(raw)] = DirWith(ArchiveOf(bytes).info)

\* the mod a folder of data/ holds, by the name in its info.json
ModOf(c) == IF IsDir(c) /\ c.info.json = "ok" THEN c.info.name ELSE "none"

\* C18: while update_mod installs a mod, the installed folder of every other
\* mod, one whose info.json carries another name, stays a directory with its
\* content, also when its folder name has the same text before the first '_'.
C18_OtherModsAreKept ==
    InUpdateMod =>
        \A n \in AllNames :
            (/\ ModOf(data_at_call[n]) # "none"
             /\ ModOf(data_at_call[n]) # local.name)
                => data[n] = data_at_call[n]

\* an archive as the portal builds them: a ZIP with one folder, named after
\* the mod and its version, that holds the info.json
ValidPackageArchive(p) ==
    LET a == ArchiveOf(p) IN
    /\ a.zip = "ok"
    /\ a.root = "sub"
    /\ TrimEndZip(a.folder) = a.folder
    /\ SlugOf(a.folder) # a.folder

\* C19: when update_mod, called for a newer release, has downloaded a valid
\* archive whose hash matches and no fault has occurred, it returns Ok and
\* the canonical folder holds the new version, whatever data/ held at the
\* call, a folder with the canonical name included.
C19_UpdateCommits ==
    (/\ pc = "um_ret"
     /\ faults = 0
     /\ bytes # "none"
     /\ ~ShaDiffers
     /\ ValidPackageArchive(bytes))
        => /\ um_result = "Ok"
           /\ data[TrimEndZip(ArchiveOf(bytes).folder)] = DirWith(ArchiveOf(bytes).info)

\* C20: once sanitize_section has run on a section, the section is a table
\* whose keys are the allowed keys of the section; an allowed key the
\* section already had keeps its value, every other allowed key has its
\* default, a section that was not a table or was missing is the default
\* table; and a further run on the same section leaves the document as it
\* was.
C20_SanitizeSectionIsIdempotent ==
    LET root == config_file.root IN
    /\ \A s \in Sections :
          san.times[s] >= 1 =>
              /\ s \in DOMAIN root
              /\ root[s].t = "table"
              /\ DOMAIN root[s].map = ALLOWED_SECTION_KEYS(s)
              /\ \A k \in ALLOWED_SECTION_KEYS(s) :
                    root[s].map[k] =
                        IF /\ s \in DOMAIN san.first
                           /\ san.first[s].t = "table"
                           /\ k \in DOMAIN san.first[s].map
                        THEN san.first[s].map[k]
                        ELSE DefaultSection(s).map[k]
    /\ \A s \in Sections :
          (san.last = s /\ san.times[s] >= 2) => root = san.before

C20_Witness ==
    /\ san.last = "factorio"
    /\ san.times["factorio"] = 2
    /\ "factorio" \in DOMAIN san.first
    /\ san.first["factorio"].t = "table"
    /\ DOMAIN san.first["factorio"].map = {"username", "password"}
    /\ config_file.root["factorio"].map["username"] = Bool("true")
    /\ config_file.root["factorio"].map["token"] = Str("my-token")

====
